---- MODULE Spec2Model ----
(***************************************************************************)
(* Dream Nursery: the in-memory presence hub (class Nursery, a Durable     *)
(* Object with a session map and an agent directory) and the viewer room   *)
(* of the API worker (class DreamRoom, backed by the D1 store).            *)
(*                                                                         *)
(* Every Nursery handler is synchronous, so one handler is one action.     *)
(* DreamRoom.sendCurrentState and the REST routes await the store, so      *)
(* each await is a place where other events of the room are handled.       *)
(***************************************************************************)
EXTENDS Integers, Sequences, FiniteSets, TLC

(***************************************************************************)
(* Bounds of the model.                                                    *)
(***************************************************************************)
MaxWs == 3          \* connections ever opened to the Nursery
MaxUuid == 2        \* calls of crypto.randomUUID() that yield an agent id
MaxDreams == 2      \* dream_end frames counted per agent record
MaxViewers == 2     \* connections ever opened to the DreamRoom
MaxReq == 3         \* REST requests ever made to the API worker
MaxPings == 1       \* pings answered per viewer connection
MaxLoad == 3        \* viewers plus requests in one run of the worker

WS == 1 .. MaxWs
NoWs == 0           \* "no connection": broadcast's default exclude = null

(***************************************************************************)
(* JavaScript values.  null and undefined are both Null; an optional       *)
(* message field is None when absent and Some(v) when present.             *)
(***************************************************************************)
Null == "null"
None == << >>
Some(v) == << v >>
Range(f) == { f[i] : i \in DOMAIN f }

\* the n-th value crypto.randomUUID() returns for an agent id
Uuid(n) == << "u1", "u2", "u3", "u4", "u5", "u6", "u7", "u8", "u9", "u10" >>[n]
Uuids == { Uuid(n) : n \in 1 .. MaxUuid }
ClientIds == { "X" }
AgentIds == ClientIds \cup Uuids

VARIABLES
    sessions,     \* Nursery.sessions: the connections in Map (insertion) order
    agentIdOf,    \* session.agentId of the session object created for each connection
    agents,       \* Nursery.agents: agent id -> agent record
    wsState,      \* transport state of each connection
    uuidNext,     \* number of the next fresh UUID
    out,          \* messages ws.send delivered to each connection in the last step
    last,         \* the event handled in the last step
    track,        \* per connection: progress through register, dream_start, dream_end
    present       \* agent ids announced by agent_joined and not by agent_left since

VARIABLES
    rSessions,    \* DreamRoom.sessions: the connections in Map (insertion) order
    rWs,          \* transport state of each viewer connection
    syncPc,       \* where sendCurrentState of each connection stands
    syncRes,      \* what its store read returned
    acceptView,   \* what the store read would have returned when it was accepted
    rLog,         \* every message delivered to each viewer connection, in order
    dbAgents,     \* D1 table agents: row id -> row
    dbDreams,     \* D1 table dreams, in insertion order
    dbNextId,     \* number of the next generateId() value used as an agent row id
    reqs          \* the REST requests: route, position, local variables

VARIABLES
    clients,      \* the frames the Nursery's clients send, by type
    limits        \* how many connections, fresh agent ids, viewers and requests a run has

envVars == << clients, limits >>

roomVars == << rSessions, rWs, syncPc, syncRes, acceptView, rLog,
               dbAgents, dbDreams, dbNextId, reqs >>

nurseryVars == << sessions, agentIdOf, agents, wsState, uuidNext, out, last, track,
                  present >>

(***************************************************************************)
(* Agent records and the preset layout.                                    *)
(***************************************************************************)
NumPresets == 8
positions ==
    << <<100, 150>>, <<350, 150>>, <<600, 150>>,
       <<100, 350>>, <<350, 350>>, <<600, 350>>,
       <<225, 250>>, <<475, 250>> >>

\* Math.random() draws of the fallback, as coordinate pairs inside the layout.
RandomPositions == { <<100, 150>>, <<320, 410>> }

\* a || b of JavaScript on the strings of this model
Truthy(v) == v # Null /\ v # ""
OrElse(v, d) == IF Truthy(v) THEN v ELSE d

usedPositions(ags) == { << ags[i].x, ags[i].y >> : i \in DOMAIN ags }

\* positions.find(p => !usedPositions.has(...)), or the random fallback
PosChoices(ags) ==
    LET open == { k \in 1 .. NumPresets : positions[k] \notin usedPositions(ags) }
    IN  IF open # {}
        THEN { positions[CHOOSE k \in open : \A j \in open : k <= j] }
        ELSE RandomPositions

NewAgent(id, pos) ==
    [ id |-> id, status |-> "active", x |-> pos[1], y |-> pos[2],
      dreamCount |-> 0, motifs |-> << >>, lastInsight |-> Null,
      currentDreamId |-> Null ]

\* Map.set(id, agent)
MapSet(ags, id, a) ==
    [ i \in DOMAIN ags \cup {id} |-> IF i = id THEN a ELSE ags[i] ]

\* Map.delete(id)
MapDelete(ags, id) == [ i \in DOMAIN ags \ {id} |-> ags[i] ]

\* Map.delete(ws) on the session map, kept in insertion order
SeqDelete(ss, w) == SelectSeq(ss, LAMBDA v : v # w)

RECURSIVE SumDreams(_, _)
SumDreams(ags, ids) ==
    IF ids = {} THEN 0
    ELSE LET i == CHOOSE j \in ids : TRUE
         IN  ags[i].dreamCount + SumDreams(ags, ids \ {i})

getStats(ags) ==
    [ total |-> Cardinality(DOMAIN ags),
      dreaming |-> Cardinality({ i \in DOMAIN ags : ags[i].status = "dreaming" }),
      active |-> Cardinality({ i \in DOMAIN ags : ags[i].status = "active" }),
      totalDreams |-> SumDreams(ags, DOMAIN ags) ]

(***************************************************************************)
(* Outbound messages.  An event carries its type, the agent id it names    *)
(* and the agent records serialized into it at the time of the send.       *)
(***************************************************************************)
Event(type, id, body) == [ type |-> type, agentId |-> id, agents |-> body ]

Welcome(ags) ==
    [ type |-> "welcome", agentId |-> Null, agents |-> Range(ags),
      stats |-> getStats(ags) ]

NoOut == [ w \in WS |-> << >> ]

\* ws.send throws unless the connection is open
CanSend(st, w) == st[w] = "open"

\* Nursery.send: try { ws.send(JSON.stringify(data)) } catch (e) { log }
send(o, st, w, msg) ==
    IF CanSend(st, w) THEN [ o EXCEPT ![w] = Append(@, msg) ] ELSE o

\* The fan-out without the per-send try/catch: the first failing send throws
\* out of the loop.
RECURSIVE BroadcastAborting(_, _, _, _, _, _)
BroadcastAborting(i, ss, st, o, msg, exclude) ==
    IF i > Len(ss) THEN [ out |-> o, threw |-> FALSE ]
    ELSE IF ss[i] = exclude THEN BroadcastAborting(i + 1, ss, st, o, msg, exclude)
    ELSE IF CanSend(st, ss[i])
         THEN BroadcastAborting(i + 1, ss, st,
                                [ o EXCEPT ![ss[i]] = Append(@, msg) ], msg, exclude)
         ELSE [ out |-> o, threw |-> TRUE ]

\* Nursery.broadcast: for (const [ws, session] of this.sessions)
\*   if (ws !== exclude) { try { ws.send(msg) } catch (e) {} }
RECURSIVE BroadcastFrom(_, _, _, _, _, _)
BroadcastFrom(i, ss, st, o, msg, exclude) ==
    IF i > Len(ss) THEN [ out |-> o, threw |-> FALSE ]
    ELSE IF ss[i] = exclude THEN BroadcastFrom(i + 1, ss, st, o, msg, exclude)
    ELSE IF CanSend(st, ss[i])
         THEN BroadcastFrom(i + 1, ss, st,
                            [ o EXCEPT ![ss[i]] = Append(@, msg) ], msg, exclude)
         ELSE BroadcastFrom(i + 1, ss, st, o, msg, exclude)

broadcast(ss, st, o, msg) == BroadcastFrom(1, ss, st, o, msg, NoWs)

(***************************************************************************)
(* What the last step was, and each connection's progress through a        *)
(* register, dream_start, dream_end sequence of consecutive frames.        *)
(***************************************************************************)
Handled(op, w, ev, threw) ==
    [ op |-> op, ws |-> w, bcast |-> ev, threw |-> threw ]

NoTrack == [ phase |-> "none", base |-> 0 ]

TrackStep(w, op, ags, id) ==
    [ track EXCEPT ![w] =
        CASE op = "register" ->
                [ phase |-> "registered", base |-> ags[id].dreamCount ]
          [] op = "dream_start" /\ track[w].phase = "registered" ->
                [ @ EXCEPT !.phase = "started" ]
          [] op = "dream_end" /\ track[w].phase = "started" ->
                [ @ EXCEPT !.phase = "ended" ]
          [] OTHER -> NoTrack ]

(***************************************************************************)
(* Inbound frames (client -> hub), after JSON.parse.                       *)
(***************************************************************************)
\* Every frame a client can send, by type.
AllRegisterMsgs == [ agentId : {Null} \cup AgentIds ]
AllStatusMsgs == [ status : { Null, "active", "dreaming", "idle" } ]
AllDreamStartMsgs == [ dreamId : { Null, "d1" } ]
AllDreamEndMsgs ==
    [ motifs : { None, Some(<< >>), Some(<< "identity" >>) },
      wakeInsights : { None, Some(<< >>), Some(<< "x" >>), Some(<< "" >>) } ]
AllInsightMsgs == [ insight : { "y" }, isBreakthrough : { Null, "true" } ]
AllDroppedFrames == { "malformed", "null", "unknown" }

\* The frames the clients of one run send.  Anonymous clients register
\* without an agentId, as the README shows; named clients may supply one,
\* as agents of the Dream Mode Protocol do.
Repertoire(ids) ==
    [ register |-> { m \in AllRegisterMsgs : m.agentId \in ids },
      status |-> { m \in AllStatusMsgs : m.status = "active" },
      dream_start |-> { m \in AllDreamStartMsgs : m.dreamId = Null },
      dream_end |-> { m \in AllDreamEndMsgs : m.motifs = None /\ m.wakeInsights = None },
      insight |-> { m \in AllInsightMsgs : m.isBreakthrough = "true" },
      dropped |-> { "malformed" } ]

AnonymousClients == Repertoire({Null})
NamedClients == Repertoire({Null} \cup ClientIds)

\* Clients that send every variant of every frame.
VariedClients ==
    [ register |-> { m \in AllRegisterMsgs : m.agentId = Null },
      status |-> AllStatusMsgs,
      dream_start |-> AllDreamStartMsgs,
      dream_end |-> AllDreamEndMsgs,
      insight |-> AllInsightMsgs,
      dropped |-> AllDroppedFrames ]

\* Clients that register and report the end of dreams, with every variant
\* of the dream_end frame.
WakingClients ==
    [ register |-> { m \in AllRegisterMsgs : m.agentId = Null },
      status |-> {}, dream_start |-> {},
      dream_end |-> AllDreamEndMsgs,
      insight |-> {}, dropped |-> {} ]

\* Clients that do nothing but register (and ping), again and again.
CrowdClients ==
    [ register |-> { m \in AllRegisterMsgs : m.agentId = Null },
      status |-> {}, dream_start |-> {}, dream_end |-> {}, insight |-> {},
      dropped |-> {} ]

RegisterMsgs == clients.register
StatusMsgs == clients.status
DreamStartMsgs == clients.dream_start
DreamEndMsgs == clients.dream_end
InsightMsgs == clients.insight
DroppedFrames == clients.dropped

HubInit ==
    /\ sessions = << >>
    /\ agentIdOf = [ w \in WS |-> Null ]
    /\ agents = [ i \in {} |-> NewAgent(i, positions[1]) ]
    /\ wsState = [ w \in WS |-> "new" ]
    /\ uuidNext = 1
    /\ out = NoOut
    /\ last = Handled("init", NoWs, None, FALSE)
    /\ track = [ w \in WS |-> NoTrack ]
    /\ present = {}


(***************************************************************************)
(* Nursery.handleSession: accept, store the session, send the welcome.     *)
(***************************************************************************)
handleSession(w) ==
    /\ wsState[w] = "new"
    /\ UNCHANGED << envVars, roomVars >>
    /\ w <= limits.ws
    /\ \A v \in WS : v < w => wsState[v] # "new"    \* numbered as they arrive
    /\ wsState' = [ wsState EXCEPT ![w] = "open" ]
    /\ sessions' = Append(sessions, w)
    /\ agentIdOf' = [ agentIdOf EXCEPT ![w] = Null ]
    /\ out' = send(NoOut, wsState', w, Welcome(agents))
    /\ last' = Handled("accept", w, None, FALSE)
    /\ UNCHANGED << agents, uuidNext, track, present >>

(***************************************************************************)
(* Nursery.handleRegister                                                  *)
(***************************************************************************)
handleRegister(w, m) ==
    /\ wsState[w] = "open"
    /\ UNCHANGED << envVars, roomVars >>
    /\ Truthy(m.agentId) \/ uuidNext <= limits.uuids
    /\ LET id == IF Truthy(m.agentId) THEN m.agentId ELSE Uuid(uuidNext)
       IN  \E pos \in PosChoices(agents) :
             LET agent == NewAgent(id, pos)
                 ev == Event("agent_joined", id, {agent})
                 o1 == send(NoOut, wsState, w, Event("registered", id, {agent}))
                 b == broadcast(sessions, wsState, o1, ev)
             IN  /\ agents' = MapSet(agents, id, agent)
                 /\ agentIdOf' = [ agentIdOf EXCEPT ![w] = id ]
                 /\ uuidNext' = IF Truthy(m.agentId) THEN uuidNext ELSE uuidNext + 1
                 /\ out' = b.out
                 /\ last' = Handled("register", w, Some(ev), b.threw)
                 /\ track' = TrackStep(w, "register", agents', id)
                 /\ present' = present \cup {id}
    /\ UNCHANGED << sessions, wsState >>

\* if (!session.agentId) return;  agent = agents.get(...);  if (!agent) return;
HasAgent(w) == Truthy(agentIdOf[w]) /\ agentIdOf[w] \in DOMAIN agents

\* A handler that returned at one of its two guards.
Ignored(w, op) ==
    /\ out' = NoOut
    /\ last' = Handled(op, w, None, FALSE)
    /\ track' = TrackStep(w, op, agents, Null)
    /\ UNCHANGED << sessions, agentIdOf, agents, wsState, uuidNext, present >>

(***************************************************************************)
(* Nursery.handleStatusUpdate                                              *)
(***************************************************************************)
handleStatusUpdate(w, m) ==
    /\ wsState[w] = "open"
    /\ UNCHANGED << envVars, roomVars >>
    /\ IF ~HasAgent(w) THEN Ignored(w, "status")
       ELSE LET id == agentIdOf[w]
                agent == [ agents[id] EXCEPT !.status = OrElse(m.status, @) ]
                ev == Event("agent_updated", id, {agent})
                b == broadcast(sessions, wsState, NoOut, ev)
            IN  /\ agents' = MapSet(agents, id, agent)
                /\ out' = b.out
                /\ last' = Handled("status", w, Some(ev), b.threw)
                /\ track' = TrackStep(w, "status", agents', id)
                /\ UNCHANGED << sessions, agentIdOf, wsState, uuidNext, present >>

(***************************************************************************)
(* Nursery.handleDreamStart                                                *)
(***************************************************************************)
handleDreamStart(w, m) ==
    /\ wsState[w] = "open"
    /\ UNCHANGED << envVars, roomVars >>
    /\ IF ~HasAgent(w) THEN Ignored(w, "dream_start")
       ELSE \E fresh \in { "uuid" } :
            LET id == agentIdOf[w]
                agent == [ agents[id] EXCEPT !.status = "dreaming",
                                             !.currentDreamId = OrElse(m.dreamId, fresh) ]
                ev == Event("dream_started", id, {})
                b == broadcast(sessions, wsState, NoOut, ev)
            IN  /\ agents' = MapSet(agents, id, agent)
                /\ out' = b.out
                /\ last' = Handled("dream_start", w, Some(ev), b.threw)
                /\ track' = TrackStep(w, "dream_start", agents', id)
                /\ UNCHANGED << sessions, agentIdOf, wsState, uuidNext, present >>

(***************************************************************************)
(* Nursery.handleDreamEnd                                                  *)
(***************************************************************************)
\* msg.wakeInsights?.[0]
FirstInsight(m) ==
    IF m.wakeInsights = None THEN Null
    ELSE IF Len(m.wakeInsights[1]) = 0 THEN Null
    ELSE m.wakeInsights[1][1]

\* the dream_ended event: agentId, and the frame's motifs and wakeInsights
DreamEnded(id, m) ==
    [ type |-> "dream_ended", agentId |-> id, agents |-> {},
      motifs |-> m.motifs, wakeInsights |-> m.wakeInsights ]

\* handleDreamEnd assigning msg.motifs and msg.wakeInsights?.[0] without
\* the "|| agent.motifs" and "|| agent.lastInsight" fallbacks
handleDreamEndOverwriting(w, m) ==
    /\ wsState[w] = "open"
    /\ UNCHANGED << envVars, roomVars >>
    /\ HasAgent(w) => agents[agentIdOf[w]].dreamCount < MaxDreams
    /\ IF ~HasAgent(w) THEN Ignored(w, "dream_end")
       ELSE LET id == agentIdOf[w]
                agent == [ agents[id] EXCEPT
                             !.status = "active",
                             !.dreamCount = @ + 1,
                             !.motifs = IF m.motifs # None THEN m.motifs[1] ELSE << >>,
                             !.lastInsight = FirstInsight(m) ]
                ev == DreamEnded(id, m)
                b == broadcast(sessions, wsState, NoOut, ev)
            IN  /\ agents' = MapSet(agents, id, agent)
                /\ out' = b.out
                /\ last' = Handled("dream_end", w, Some(ev), b.threw)
                /\ track' = TrackStep(w, "dream_end", agents', id)
                /\ UNCHANGED << sessions, agentIdOf, wsState, uuidNext, present >>

handleDreamEnd(w, m) ==
    /\ wsState[w] = "open"
    /\ UNCHANGED << envVars, roomVars >>
    /\ HasAgent(w) => agents[agentIdOf[w]].dreamCount < MaxDreams
    /\ IF ~HasAgent(w) THEN Ignored(w, "dream_end")
       ELSE LET id == agentIdOf[w]
                agent == [ agents[id] EXCEPT
                             !.status = "active",
                             !.dreamCount = @ + 1,
                             !.motifs = IF m.motifs # None THEN m.motifs[1] ELSE @,
                             !.lastInsight = OrElse(FirstInsight(m), @) ]
                ev == DreamEnded(id, m)
                b == broadcast(sessions, wsState, NoOut, ev)
            IN  /\ agents' = MapSet(agents, id, agent)
                /\ out' = b.out
                /\ last' = Handled("dream_end", w, Some(ev), b.threw)
                /\ track' = TrackStep(w, "dream_end", agents', id)
                /\ UNCHANGED << sessions, agentIdOf, wsState, uuidNext, present >>

(***************************************************************************)
(* Nursery.handleInsight                                                   *)
(***************************************************************************)
\* handleInsight without its two guards
handleInsightUnguarded(w, m) ==
    /\ wsState[w] = "open"
    /\ UNCHANGED << envVars, roomVars >>
    /\ LET ev == Event("insight", agentIdOf[w], {})
           b == broadcast(sessions, wsState, NoOut, ev)
       IN  /\ out' = b.out
           /\ last' = Handled("insight", w, Some(ev), b.threw)
           /\ track' = TrackStep(w, "insight", agents, Null)
           /\ UNCHANGED << sessions, agentIdOf, agents, wsState, uuidNext, present >>

handleInsight(w, m) ==
    /\ wsState[w] = "open"
    /\ UNCHANGED << envVars, roomVars >>
    /\ IF ~HasAgent(w) THEN Ignored(w, "insight")
       ELSE LET ev == Event("insight", agentIdOf[w], {})
                b == broadcast(sessions, wsState, NoOut, ev)
            IN  /\ out' = b.out
                /\ last' = Handled("insight", w, Some(ev), b.threw)
                /\ track' = TrackStep(w, "insight", agents, Null)
                /\ UNCHANGED << sessions, agentIdOf, agents, wsState, uuidNext, present >>

(***************************************************************************)
(* Nursery.handleMessage, case 'ping', and the frames the message listener *)
(* drops: JSON.parse throws, msg is null (msg.type throws), or msg.type    *)
(* matches no case of the switch.                                          *)
(***************************************************************************)
\* a ping answered with this.broadcast instead of this.send
handlePingBroadcast(w) ==
    /\ wsState[w] = "open"
    /\ UNCHANGED << envVars, roomVars >>
    /\ out' = broadcast(sessions, wsState, NoOut, Event("pong", Null, {})).out
    /\ last' = Handled("ping", w, None, FALSE)
    /\ track' = TrackStep(w, "ping", agents, Null)
    /\ UNCHANGED << sessions, agentIdOf, agents, wsState, uuidNext, present >>

handlePing(w) ==
    /\ wsState[w] = "open"
    /\ UNCHANGED << envVars, roomVars >>
    /\ out' = send(NoOut, wsState, w, Event("pong", Null, {}))
    /\ last' = Handled("ping", w, None, FALSE)
    /\ track' = TrackStep(w, "ping", agents, Null)
    /\ UNCHANGED << sessions, agentIdOf, agents, wsState, uuidNext, present >>

\* the message listener without its try/catch: the exception of a bad frame
\* ends the session
handleDroppedFatal(w, frame) ==
    /\ wsState[w] = "open"
    /\ UNCHANGED << envVars, roomVars >>
    /\ out' = NoOut
    /\ last' = Handled(frame, w, None, TRUE)
    /\ track' = TrackStep(w, frame, agents, Null)
    /\ sessions' = SeqDelete(sessions, w)
    /\ UNCHANGED << agentIdOf, agents, wsState, uuidNext, present >>

handleDropped(w, frame) ==
    /\ wsState[w] = "open"
    /\ UNCHANGED << envVars, roomVars >>
    /\ Ignored(w, frame)

(***************************************************************************)
(* The transport fails: sends to the connection throw from now on, and     *)
(* its close event has not been delivered yet.  This is the connection's   *)
(* error event; handleSession registers a message and a close listener and *)
(* none for it, so nothing of the hub changes.                             *)
(***************************************************************************)
TransportFails(w) ==
    /\ wsState[w] = "open"
    /\ UNCHANGED << envVars, roomVars >>
    /\ wsState' = [ wsState EXCEPT ![w] = "broken" ]
    /\ out' = NoOut
    /\ last' = Handled("fail", w, None, FALSE)
    /\ UNCHANGED << sessions, agentIdOf, agents, uuidNext, track, present >>

(***************************************************************************)
(* The close listener: Nursery.handleDisconnect.  The closing connection   *)
(* is still in the session map while agent_left is broadcast.              *)
(***************************************************************************)
\* handleDisconnect announcing the agent without testing that it is still in
\* the directory
handleDisconnectUnchecked(w) ==
    /\ wsState[w] \in { "open", "broken" }
    /\ UNCHANGED << envVars, roomVars >>
    /\ wsState' = [ wsState EXCEPT ![w] = "closed" ]
    /\ IF Truthy(agentIdOf[w])
       THEN LET id == agentIdOf[w]
                ev == Event("agent_left", id, {})
                b == broadcast(sessions, wsState', NoOut, ev)
            IN  /\ out' = b.out
                /\ last' = Handled("disconnect", w, Some(ev), b.threw)
                /\ agents' = MapDelete(agents, id)
                /\ sessions' = SeqDelete(sessions, w)
                /\ present' = present \ {id}
       ELSE /\ out' = NoOut
            /\ last' = Handled("disconnect", w, None, FALSE)
            /\ agents' = agents
            /\ sessions' = SeqDelete(sessions, w)
            /\ present' = present
    /\ UNCHANGED << agentIdOf, uuidNext, track >>

handleDisconnect(w) ==
    /\ wsState[w] \in { "open", "broken" }
    /\ UNCHANGED << envVars, roomVars >>
    /\ wsState' = [ wsState EXCEPT ![w] = "closed" ]
    /\ IF HasAgent(w)
       THEN LET id == agentIdOf[w]
                ev == Event("agent_left", id, {})
                b == broadcast(sessions, wsState', NoOut, ev)
            IN  /\ out' = b.out
                /\ last' = Handled("disconnect", w, Some(ev), b.threw)
                /\ agents' = IF b.threw THEN agents ELSE MapDelete(agents, id)
                /\ sessions' = IF b.threw THEN sessions ELSE SeqDelete(sessions, w)
                /\ present' = present \ {id}
       ELSE /\ out' = NoOut
            /\ last' = Handled("disconnect", w, None, FALSE)
            /\ agents' = agents
            /\ sessions' = SeqDelete(sessions, w)
            /\ present' = present
    /\ UNCHANGED << agentIdOf, uuidNext, track >>

HubNext ==
    \/ \E w \in WS : handleSession(w)
    \/ \E w \in WS : \E m \in RegisterMsgs : handleRegister(w, m)
    \/ \E w \in WS : \E m \in StatusMsgs : handleStatusUpdate(w, m)
    \/ \E w \in WS : \E m \in DreamStartMsgs : handleDreamStart(w, m)
    \/ \E w \in WS : \E m \in DreamEndMsgs : handleDreamEnd(w, m)
    \/ \E w \in WS : \E m \in InsightMsgs : handleInsight(w, m)
    \/ \E w \in WS : handlePing(w)
    \/ \E w \in WS : \E f \in DroppedFrames : handleDropped(w, f)
    \/ \E w \in WS : TransportFails(w)
    \/ \E w \in WS : handleDisconnect(w)

(***************************************************************************)
(* The API worker: the D1 store, the REST routes that write it, and the    *)
(* DreamRoom that fans their events out to the viewers.                    *)
(***************************************************************************)
RWS == 1 .. MaxViewers
R == 1 .. MaxReq
Mids == { "m1" }     \* external identities verifyMoltbookKey returns

\* generateId() for an agent row
RowId(n) == IF n = 1 THEN "a1" ELSE IF n = 2 THEN "a2" ELSE IF n = 3 THEN "a3" ELSE "a4"

\* INSERT INTO agents (...) VALUES (?, ?, ..., 'active', 0)
NewRow(mid) ==
    [ moltbook_id |-> mid, status |-> "active", dream_count |-> 0,
      last_dream_at |-> "never" ]

\* SELECT * FROM agents WHERE moltbook_id = ?  (.first(): a row id, or Null)
RowOf(db, mid) ==
    IF \E i \in DOMAIN db : db[i].moltbook_id = mid
    THEN CHOOSE i \in DOMAIN db : db[i].moltbook_id = mid
    ELSE Null

\* SELECT ... FROM agents WHERE status = 'dreaming'
\*   OR last_dream_at > datetime('now', '-1 hour') ... LIMIT 50,
\* mapped to the records of the sync event.  The tables of this model hold
\* fewer than 50 rows.
CurrentState(db) ==
    { [ id |-> i, status |-> db[i].status, dreamCount |-> db[i].dream_count ] :
        i \in { j \in DOMAIN db :
                  db[j].status = "dreaming" \/ db[j].last_dream_at = "recent" } }

\* SELECT id FROM dreams WHERE agent_id = ? AND ended_at IS NULL
\*   ORDER BY started_at DESC LIMIT 1  (an index of dbDreams, or 0)
OpenDream(dreams, a) ==
    LET open == { k \in DOMAIN dreams : dreams[k].agent_id = a /\ ~dreams[k].ended }
    IN  IF open = {} THEN 0 ELSE CHOOSE k \in open : \A j \in open : j <= k

\* the places of a request that runs no statement: not arrived, or answered
\* with 200, 500 or 404
Answered == { "idle", "done", "failed", "notfound" }

\* The locals of one request; order is the place of its /broadcast call among
\* those the room has handled (0: not handled), alone tells that every earlier
\* request had been answered when this one arrived.
NoReq == [ route |-> "none", pc |-> "idle", mid |-> Null,
           agent |-> Null, dream_count |-> 0, dream |-> 0, order |-> 0,
           alone |-> TRUE ]

RoomInit ==
    /\ rSessions = << >>
    /\ rWs = [ w \in RWS |-> "new" ]
    /\ syncPc = [ w \in RWS |-> "idle" ]
    /\ syncRes = [ w \in RWS |-> None ]
    /\ acceptView = [ w \in RWS |-> {} ]
    /\ rLog = [ w \in RWS |-> << >> ]
    /\ dbAgents = [ i \in {} |-> NewRow("m1") ]
    /\ dbDreams = << >>
    /\ dbNextId = 1
    /\ reqs = [ r \in R |-> NoReq ]

\* The fan-out with the new message put in front of what the connection was
\* sent before.
RECURSIVE RoomBroadcastPrepending(_, _, _, _, _)
RoomBroadcastPrepending(keys, ss, st, log, msg) ==
    IF keys = << >> THEN [ log |-> log, sessions |-> ss ]
    ELSE IF CanSend(st, Head(keys))
         THEN RoomBroadcastPrepending(Tail(keys), ss, st,
                  [ log EXCEPT ![Head(keys)] = << msg >> \o @ ], msg)
         ELSE RoomBroadcastPrepending(Tail(keys), SeqDelete(ss, Head(keys)), st, log, msg)

\* DreamRoom.broadcast: for (const ws of this.sessions.keys())
\*   try { ws.send(message) } catch (e) { this.sessions.delete(ws) }
\* Deleting the current key does not disturb the iteration of a Map.
RECURSIVE RoomBroadcastFrom(_, _, _, _, _)
RoomBroadcastFrom(keys, ss, st, log, msg) ==
    IF keys = << >> THEN [ log |-> log, sessions |-> ss ]
    ELSE IF CanSend(st, Head(keys))
         THEN RoomBroadcastFrom(Tail(keys), ss, st,
                  [ log EXCEPT ![Head(keys)] = Append(@, msg) ], msg)
         ELSE RoomBroadcastFrom(Tail(keys), SeqDelete(ss, Head(keys)), st, log, msg)

roomBroadcast(msg) == RoomBroadcastFrom(rSessions, rSessions, rWs, rLog, msg)

(***************************************************************************)
(* DreamRoom.handleSession: accept, store the session, start               *)
(* sendCurrentState, whose promise nobody awaits; then its two awaits: the *)
(* store executes the read, and the reply is sent when it is back.         *)
(***************************************************************************)
roomHandleSession(w) ==
    /\ rWs[w] = "new"
    /\ UNCHANGED << envVars, nurseryVars >>
    /\ w <= limits.viewers
    /\ \A v \in RWS : v < w => rWs[v] # "new"      \* numbered as they arrive
    /\ rWs' = [ rWs EXCEPT ![w] = "open" ]
    /\ rSessions' = Append(rSessions, w)
    /\ syncPc' = [ syncPc EXCEPT ![w] = "query" ]
    /\ acceptView' = [ acceptView EXCEPT ![w] = CurrentState(dbAgents) ]
    /\ UNCHANGED << syncRes, rLog, dbAgents, dbDreams, dbNextId, reqs >>

\* the store executes the SELECT of sendCurrentState, or fails
syncQuery(w) ==
    /\ syncPc[w] = "query"
    /\ UNCHANGED << envVars, nurseryVars >>
    /\ syncPc' = [ syncPc EXCEPT ![w] = "reply" ]
    /\ \E ok \in BOOLEAN :
         syncRes' = [ syncRes EXCEPT ![w] =
                        IF ok THEN Some([ from |-> "query", agents |-> CurrentState(dbAgents) ])
                        ELSE Some([ from |-> "catch", agents |-> {} ]) ]
    /\ UNCHANGED << rSessions, rWs, acceptView, rLog, dbAgents, dbDreams, dbNextId, reqs >>

\* ws.send(JSON.stringify({ type: 'sync', agents })), in the try or in the catch
syncSend(w) ==
    /\ syncPc[w] = "reply"
    /\ UNCHANGED << envVars, nurseryVars >>
    /\ syncPc' = [ syncPc EXCEPT ![w] = "done" ]
    /\ rLog' = send(rLog, rWs, w,
                    [ type |-> "sync", from |-> syncRes[w][1].from,
                      agents |-> syncRes[w][1].agents ])
    /\ UNCHANGED << rSessions, rWs, syncRes, acceptView, dbAgents, dbDreams, dbNextId, reqs >>

\* the message listener: a ping is answered, every other frame is ignored
roomPing(w) ==
    /\ rWs[w] = "open"
    /\ UNCHANGED << envVars, nurseryVars >>
    /\ Cardinality({ k \in DOMAIN rLog[w] : rLog[w][k].type = "pong" }) < MaxPings
    /\ rLog' = send(rLog, rWs, w, [ type |-> "pong" ])
    /\ UNCHANGED << rSessions, rWs, syncPc, syncRes, acceptView, dbAgents, dbDreams, dbNextId, reqs >>

roomTransportFails(w) ==
    /\ rWs[w] = "open"
    /\ UNCHANGED << envVars, nurseryVars >>
    /\ rWs' = [ rWs EXCEPT ![w] = "broken" ]
    /\ UNCHANGED << rSessions, syncPc, syncRes, acceptView, rLog, dbAgents, dbDreams, dbNextId, reqs >>

\* the error listener
roomError(w) ==
    /\ rWs[w] = "broken"
    /\ UNCHANGED << envVars, nurseryVars >>
    /\ rWs' = [ rWs EXCEPT ![w] = "errored" ]
    /\ rSessions' = SeqDelete(rSessions, w)
    /\ UNCHANGED << syncPc, syncRes, acceptView, rLog, dbAgents, dbDreams, dbNextId, reqs >>

\* the close listener
roomClose(w) ==
    /\ rWs[w] \in { "open", "broken", "errored" }
    /\ UNCHANGED << envVars, nurseryVars >>
    /\ rWs' = [ rWs EXCEPT ![w] = "closed" ]
    /\ rSessions' = SeqDelete(rSessions, w)
    /\ UNCHANGED << syncPc, syncRes, acceptView, rLog, dbAgents, dbDreams, dbNextId, reqs >>

\* more than an hour passes since an agent's last dream started
hourPasses(i) ==
    /\ i \in DOMAIN dbAgents
    /\ UNCHANGED << envVars, nurseryVars >>
    /\ dbAgents[i].last_dream_at = "recent"
    /\ dbAgents' = [ dbAgents EXCEPT ![i].last_dream_at = "old" ]
    /\ UNCHANGED << rSessions, rWs, syncPc, syncRes, acceptView, rLog, dbDreams, dbNextId, reqs >>

(***************************************************************************)
(* The REST routes POST /api/dream/start and POST /api/dream/end of the    *)
(* worker's fetch, one action per awaited store statement.  A request      *)
(* arrives with the identity verifyMoltbookKey returned for its key.       *)
(***************************************************************************)
roomUnchanged == UNCHANGED << rSessions, rWs, syncPc, syncRes, acceptView, rLog >>

requestArrives(r, route, mid) ==
    /\ reqs[r].pc = "idle"
    /\ UNCHANGED << envVars, nurseryVars >>
    /\ r <= limits.reqs
    /\ \A q \in R : q < r => reqs[q].pc # "idle"    \* numbered as they arrive
    /\ reqs' = [ reqs EXCEPT ![r] =
                  [ NoReq EXCEPT !.route = route, !.mid = mid, !.pc = "select",
                                 !.alone = \A q \in R : reqs[q].pc \in Answered ] ]
    /\ roomUnchanged
    /\ UNCHANGED << dbAgents, dbDreams, dbNextId >>

\* getOrCreateAgent: SELECT * FROM agents WHERE moltbook_id = ?
startSelect(r) ==
    /\ reqs[r].route = "start" /\ reqs[r].pc = "select"
    /\ UNCHANGED << envVars, nurseryVars >>
    /\ LET row == RowOf(dbAgents, reqs[r].mid)
       IN  reqs' = [ reqs EXCEPT ![r] =
                       IF row = Null THEN [ @ EXCEPT !.pc = "insert" ]
                       ELSE [ @ EXCEPT !.pc = "dream", !.agent = row,
                                       !.dream_count = dbAgents[row].dream_count ] ]
    /\ roomUnchanged
    /\ UNCHANGED << dbAgents, dbDreams, dbNextId >>

\* getOrCreateAgent: INSERT INTO agents; moltbook_id is UNIQUE, so the
\* statement throws when a row of the identity exists, and fetch's catch
\* answers 500.
startInsert(r) ==
    /\ reqs[r].route = "start" /\ reqs[r].pc = "insert"
    /\ UNCHANGED << envVars, nurseryVars >>
    /\ dbNextId' = dbNextId + 1
    /\ IF RowOf(dbAgents, reqs[r].mid) # Null
       THEN /\ reqs' = [ reqs EXCEPT ![r].pc = "failed" ]
            /\ dbAgents' = dbAgents
       ELSE /\ dbAgents' = MapSet(dbAgents, RowId(dbNextId), NewRow(reqs[r].mid))
            /\ reqs' = [ reqs EXCEPT ![r].pc = "reselect", ![r].agent = RowId(dbNextId) ]
    /\ roomUnchanged
    /\ UNCHANGED dbDreams

\* getOrCreateAgent: SELECT * FROM agents WHERE id = ?
startReselect(r) ==
    /\ reqs[r].route = "start" /\ reqs[r].pc = "reselect"
    /\ UNCHANGED << envVars, nurseryVars >>
    /\ reqs' = [ reqs EXCEPT ![r].pc = "dream",
                             ![r].dream_count = dbAgents[reqs[r].agent].dream_count ]
    /\ roomUnchanged
    /\ UNCHANGED << dbAgents, dbDreams, dbNextId >>

\* INSERT INTO dreams (id, agent_id, started_at, motifs)
startDream(r) ==
    /\ reqs[r].route = "start" /\ reqs[r].pc = "dream"
    /\ UNCHANGED << envVars, nurseryVars >>
    /\ dbDreams' = Append(dbDreams, [ agent_id |-> reqs[r].agent, ended |-> FALSE ])
    /\ reqs' = [ reqs EXCEPT ![r].pc = "update", ![r].dream = Len(dbDreams) + 1 ]
    /\ roomUnchanged
    /\ UNCHANGED << dbAgents, dbNextId >>

\* UPDATE agents SET status = 'dreaming', ..., last_dream_at = datetime('now')
startUpdate(r) ==
    /\ reqs[r].route = "start" /\ reqs[r].pc = "update"
    /\ UNCHANGED << envVars, nurseryVars >>
    /\ dbAgents' = [ dbAgents EXCEPT ![reqs[r].agent].status = "dreaming",
                                     ![reqs[r].agent].last_dream_at = "recent" ]
    /\ reqs' = [ reqs EXCEPT ![r].pc = "bcast" ]
    /\ roomUnchanged
    /\ UNCHANGED << dbDreams, dbNextId >>

\* the body of the /broadcast request a route sends to the room
BroadcastMsg(req) ==
    IF req.route = "start"
    THEN [ type |-> "dream_start", agentId |-> req.agent,
           status |-> "dreaming", dreamId |-> req.dream ]
    ELSE [ type |-> "dream_end", agentId |-> req.agent,
           status |-> "active", dreamCount |-> req.dream_count + 1 ]

\* room.fetch('https://internal/broadcast'): DreamRoom.fetch calls broadcast
requestBroadcast(r) ==
    /\ reqs[r].pc = "bcast"
    /\ UNCHANGED << envVars, nurseryVars >>
    /\ LET b == roomBroadcast(BroadcastMsg(reqs[r]))
       IN  /\ rLog' = b.log
           /\ rSessions' = b.sessions
    /\ reqs' = [ reqs EXCEPT ![r].pc = "done",
                             ![r].order = 1 + Cardinality({ q \in R : reqs[q].order > 0 }) ]
    /\ UNCHANGED << rWs, syncPc, syncRes, acceptView, dbAgents, dbDreams, dbNextId >>

\* SELECT * FROM agents WHERE moltbook_id = ?  (none: 404)
endSelect(r) ==
    /\ reqs[r].route = "end" /\ reqs[r].pc = "select"
    /\ UNCHANGED << envVars, nurseryVars >>
    /\ LET row == RowOf(dbAgents, reqs[r].mid)
       IN  reqs' = [ reqs EXCEPT ![r] =
                       IF row = Null THEN [ @ EXCEPT !.pc = "notfound" ]
                       ELSE [ @ EXCEPT !.pc = "finddream", !.agent = row,
                                       !.dream_count = dbAgents[row].dream_count ] ]
    /\ roomUnchanged
    /\ UNCHANGED << dbAgents, dbDreams, dbNextId >>

\* SELECT id FROM dreams WHERE agent_id = ? AND ended_at IS NULL ...
endFindDream(r) ==
    /\ reqs[r].route = "end" /\ reqs[r].pc = "finddream"
    /\ UNCHANGED << envVars, nurseryVars >>
    /\ LET d == OpenDream(dbDreams, reqs[r].agent)
       IN  reqs' = [ reqs EXCEPT ![r].dream = d,
                                 ![r].pc = IF d # 0 THEN "closedream" ELSE "update" ]
    /\ roomUnchanged
    /\ UNCHANGED << dbAgents, dbDreams, dbNextId >>

\* UPDATE dreams SET ended_at = datetime('now'), ... WHERE id = ?
endCloseDream(r) ==
    /\ reqs[r].route = "end" /\ reqs[r].pc = "closedream"
    /\ UNCHANGED << envVars, nurseryVars >>
    /\ dbDreams' = [ dbDreams EXCEPT ![reqs[r].dream].ended = TRUE ]
    /\ reqs' = [ reqs EXCEPT ![r].pc = "update" ]
    /\ roomUnchanged
    /\ UNCHANGED << dbAgents, dbNextId >>

\* UPDATE agents SET status = 'active', dream_count = dream_count + 1, ...
endUpdate(r) ==
    /\ reqs[r].route = "end" /\ reqs[r].pc = "update"
    /\ UNCHANGED << envVars, nurseryVars >>
    /\ dbAgents' = [ dbAgents EXCEPT ![reqs[r].agent].status = "active",
                                     ![reqs[r].agent].dream_count = @ + 1 ]
    /\ reqs' = [ reqs EXCEPT ![r].pc = "bcast" ]
    /\ roomUnchanged
    /\ UNCHANGED << dbDreams, dbNextId >>

RoomNext ==
    \/ \E w \in RWS : roomHandleSession(w)
    \/ \E w \in RWS : syncQuery(w)
    \/ \E w \in RWS : syncSend(w)
    \/ \E w \in RWS : roomPing(w)
    \/ \E w \in RWS : roomTransportFails(w)
    \/ \E w \in RWS : roomError(w)
    \/ \E w \in RWS : roomClose(w)
    \/ \E i \in DOMAIN dbAgents : hourPasses(i)
    \/ \E r \in R : \E route \in { "start", "end" } : \E mid \in Mids :
         requestArrives(r, route, mid)
    \/ \E r \in R : startSelect(r)
    \/ \E r \in R : startInsert(r)
    \/ \E r \in R : startReselect(r)
    \/ \E r \in R : startDream(r)
    \/ \E r \in R : startUpdate(r)
    \/ \E r \in R : endSelect(r)
    \/ \E r \in R : endFindDream(r)
    \/ \E r \in R : endCloseDream(r)
    \/ \E r \in R : endUpdate(r)
    \/ \E r \in R : requestBroadcast(r)

(***************************************************************************)
(* Specifications: the Nursery hub with clients that run the presence      *)
(* lifecycle, and the API worker with its DreamRoom.                       *)
(***************************************************************************)
vars == << nurseryVars, roomVars, envVars >>

NoLoad == [ ws |-> 0, uuids |-> 0, viewers |-> 0, reqs |-> 0 ]

\* The runs of the Nursery: many connections of anonymous clients, fewer
\* connections of clients that may name their agent, two connections and one
\* agent with frames of every variant, two connections and two agents with
\* every variant of dream_end, or two connections registering until the
\* presets are used up and one agent more.
HubRuns ==
    { [ clients |-> AnonymousClients,
        limits |-> [ NoLoad EXCEPT !.ws = MaxWs, !.uuids = MaxUuid ] ],
      [ clients |-> NamedClients,
        limits |-> [ NoLoad EXCEPT !.ws = MaxWs - 1, !.uuids = MaxUuid - 1 ] ],
      [ clients |-> VariedClients,
        limits |-> [ NoLoad EXCEPT !.ws = 2, !.uuids = 1 ] ],
      [ clients |-> WakingClients,
        limits |-> [ NoLoad EXCEPT !.ws = 2, !.uuids = 2 ] ],
      [ clients |-> CrowdClients,
        limits |-> [ NoLoad EXCEPT !.ws = 2, !.uuids = NumPresets + 1 ] ] }

\* The runs of the API worker: viewers and requests, MaxLoad of them together.
RoomRuns ==
    { [ NoLoad EXCEPT !.viewers = v, !.reqs = q ] :
        << v, q >> \in { p \in (0 .. MaxViewers) \X (1 .. MaxReq) : p[1] + p[2] <= MaxLoad } }

Init ==
    /\ HubInit /\ RoomInit
    /\ \E run \in HubRuns : clients = run.clients /\ limits = run.limits

Next == HubNext

Spec == Init /\ [][Next]_vars

RoomStart ==
    /\ HubInit /\ RoomInit
    /\ clients = AnonymousClients /\ limits \in RoomRuns

RoomSpec == RoomStart /\ [][RoomNext]_vars

(***************************************************************************)
(* Properties.                                                             *)
(***************************************************************************)
Count(ev, msgs) == Cardinality({ k \in DOMAIN msgs : msgs[k] = ev })
Registry == Range(sessions)
Silent(o) == \A w \in WS : o[w] = << >>

\* C1: when a session has sent register, dream_start and dream_end as three
\* consecutive frames of its own (frames of other sessions in between), its
\* bound agent's dreamCount is one more than it was after the register, and
\* the agent is active again.
C1_DreamCycleCountsOnce ==
    \A w \in WS :
        (last.op = "dream_end" /\ last.ws = w /\ track[w].phase = "ended")
            => /\ agentIdOf[w] \in DOMAIN agents
               /\ agents[agentIdOf[w]].dreamCount = track[w].base + 1
               /\ agents[agentIdOf[w]].status = "active"

\* C2: a status, dream_start, dream_end or insight frame received on a session
\* with no bound agent leaves the agent directory unchanged and sends no
\* message to any session.
C2_UnboundFramesDoNothing ==
    [][ ( /\ last'.op \in { "status", "dream_start", "dream_end", "insight" }
          /\ agentIdOf[last'.ws] = Null )
        => ( agents' = agents /\ sessions' = sessions /\ Silent(out') ) ]_vars

\* C2, its case: an unbound session has just sent dream_end while another,
\* open session has a dreaming agent that a broadcast or a mutation would reach.
C2_Witness ==
    /\ last.op = "dream_end"
    /\ agentIdOf[last.ws] = Null
    /\ \E v \in Registry :
          /\ v # last.ws /\ wsState[v] = "open"
          /\ agentIdOf[v] \in DOMAIN agents
          /\ agents[agentIdOf[v]].status = "dreaming"

\* C3: the disconnect of a bound session broadcasts exactly one agent_left for
\* its agent, and leaves the directory without that agent and the registry
\* without the session.
C3_DisconnectAnnouncesAgent ==
    (last.op = "disconnect" /\ Truthy(agentIdOf[last.ws]))
        => /\ last.bcast = Some(Event("agent_left", agentIdOf[last.ws], {}))
           /\ agentIdOf[last.ws] \notin DOMAIN agents
           /\ last.ws \notin Registry

\* C4: a register frame on a session that is already bound is rejected: the
\* binding and the directory stay as they were and no agent_joined is broadcast.
C4_RebindRejected ==
    [][ (last'.op = "register" /\ Truthy(agentIdOf[last'.ws]))
        => ( /\ agentIdOf' = agentIdOf
             /\ agents' = agents
             /\ last'.bcast = None ) ]_vars

\* C5: every agent in the directory is the bound agent of at least one session
\* in the registry.
C5_NoOrphanAgent ==
    \A id \in DOMAIN agents : \E w \in Registry : agentIdOf[w] = id

\* C6: the bound agent id of every session in the registry refers to an agent
\* in the directory.
C6_NoDanglingBinding ==
    \A w \in Registry : Truthy(agentIdOf[w]) => agentIdOf[w] \in DOMAIN agents

\* C7: no two sessions in the registry are bound to the same agent id.
C7_OneSessionPerAgent ==
    \A v, w \in Registry :
        (v # w /\ Truthy(agentIdOf[v])) => agentIdOf[v] # agentIdOf[w]

\* C8: the sync a viewer is sent, when built from a completed read of the
\* store, holds what that read returns on the store as it was when the
\* connection was accepted: no write committed after the accept is in it.
C8_SyncIsStateAtAccept ==
    \A w \in RWS : \A k \in DOMAIN rLog[w] :
        (rLog[w][k].type = "sync" /\ rLog[w][k].from = "query")
            => rLog[w][k].agents = acceptView[w]

\* The Nursery's welcome is the directory at the accept (C8's statement for
\* the in-memory hub).
WelcomeIsDirectory ==
    last.op = "accept" => out[last.ws] = << Welcome(agents) >>

\* C9: no broadcast event is delivered to a connection before its sync (which
\* the claim's other half, the first message being the sync, implies).
C9_NoBroadcastBeforeSync ==
    \A w \in RWS : \A k \in DOMAIN rLog[w] :
        rLog[w][k].type \in { "dream_start", "dream_end" }
            => \E j \in 1 .. (k - 1) : rLog[w][j].type = "sync"

\* C10: a broadcast delivers its event exactly once to every session in the
\* registry whose send succeeds, the originating session and unregistered
\* observers included, and to no other; a failing send neither stops the
\* fan-out nor raises an error in the handler, which completes.
C10_FanoutToAllButFailing ==
    [][ last'.bcast # None
        => /\ \A w \in WS :
                Count(last'.bcast[1], out'[w])
                    = IF w \in Registry /\ CanSend(wsState', w) THEN 1 ELSE 0
           /\ ~last'.threw
           /\ last'.op = "disconnect" => last'.ws \notin Range(sessions') ]_vars

\* DreamRoom.broadcast (C10's statement for the viewer room): the event of a
\* request reaches every viewer in the registry whose send succeeds, once.
RoomFanoutToAllButFailing ==
    [][ \A r \in R :
          (reqs[r].pc = "bcast" /\ reqs'[r].pc = "done")
            => \A w \in RWS :
                 /\ Len(rLog'[w]) = Len(rLog[w])
                        + (IF w \in Range(rSessions) /\ CanSend(rWs, w) THEN 1 ELSE 0)
                 /\ SubSeq(rLog'[w], 1, Len(rLog[w])) = rLog[w] ]_vars

\* C11: no broadcast call changes the session registry: a connection whose
\* send fails stays registered until its close or error event is handled.
C11_FanoutKeepsRegistry ==
    [][ (\E r \in R : reqs[r].pc = "bcast" /\ reqs'[r].pc = "done")
        => rSessions' = rSessions ]_vars

\* Nursery.broadcast (C11's statement for the presence hub): a step that
\* broadcasts removes no session but the one whose disconnect it handles.
HubFanoutKeepsRegistry ==
    [][ last'.bcast # None
        => sessions' = IF last'.op = "disconnect"
                       THEN SeqDelete(sessions, last'.ws) ELSE sessions ]_vars

HubDeliversWhileHandling ==
    [][ \A w \in WS : \A k \in DOMAIN out'[w] :
          out'[w][k].type \notin { "welcome", "registered", "pong" }
            => last'.bcast = Some(out'[w][k]) ]_vars

RegisterTakesFreePreset ==
    [][ ( /\ last'.op = "register"
          /\ \E k \in 1 .. NumPresets : positions[k] \notin usedPositions(agents) )
        => LET id == agentIdOf'[last'.ws]
               pos == << agents'[id].x, agents'[id].y >>
           IN  /\ pos \in Range(positions)
               /\ \A j \in DOMAIN agents' \ {id} :
                     << agents'[j].x, agents'[j].y >> # pos ]_vars

\* C14: every agent in the directory is active or dreaming, whatever status
\* frames were sent.
C14_StatusIsActiveOrDreaming ==
    \A id \in DOMAIN agents : agents[id].status \in { "active", "dreaming" }

\* C15: a ping is answered with exactly one pong, sent to the connection the
\* ping came from; no other connection is sent anything and the directory,
\* the registry and the bindings stay as they were.
C15_PingAnswersSenderOnly ==
    [][ last'.op = "ping"
        => /\ out' = [ NoOut EXCEPT ![last'.ws] = << Event("pong", Null, {}) >> ]
           /\ agents' = agents
           /\ sessions' = sessions
           /\ agentIdOf' = agentIdOf ]_vars

\* C15, its case: a bound session has pinged while an unbound one is open,
\* and an unbound session can ping too.
C15_Witness ==
    /\ last.op = "ping"
    /\ agentIdOf[last.ws] \in DOMAIN agents
    /\ out[last.ws] = << Event("pong", Null, {}) >>
    /\ \E v \in Registry : v # last.ws /\ wsState[v] = "open" /\ agentIdOf[v] = Null

\* DreamRoom's message listener (C15's statement for the viewer room): a
\* pong goes to the connection that pinged and to no other, and the registry
\* stays as it was.
RoomPingAnswersSenderOnly ==
    [][ \A w \in RWS :
          ( /\ Len(rLog'[w]) > Len(rLog[w])
            /\ rLog'[w][Len(rLog'[w])].type = "pong" )
          => /\ rLog'[w] = Append(rLog[w], [ type |-> "pong" ])
             /\ \A v \in RWS \ {w} : rLog'[v] = rLog[v]
             /\ rSessions' = rSessions ]_vars

\* C16: a frame that does not parse, or has no type or an unknown one, is
\* dropped: the directory, the registry, the bindings and the connections stay
\* as they were, nothing is sent, no error leaves the listener; and a register
\* frame handled right after it has its usual effect.
C16_BadFrameDropped ==
    [][ /\ last'.op \in AllDroppedFrames
            => /\ agents' = agents /\ sessions' = sessions /\ agentIdOf' = agentIdOf
               /\ wsState' = wsState /\ uuidNext' = uuidNext
               /\ Silent(out') /\ ~last'.threw /\ last'.bcast = None
        /\ (last.op \in AllDroppedFrames /\ last'.op = "register")
            => LET id == agentIdOf'[last'.ws]
               IN  /\ id \in DOMAIN agents'
                   /\ agents'[id].status = "active"
                   /\ last'.bcast = Some(Event("agent_joined", id, {agents'[id]}))
                   /\ \A v \in Registry :
                         Count(last'.bcast[1], out'[v]) = IF CanSend(wsState, v) THEN 1 ELSE 0 ]_vars

\* C16, its case: the frame "null" (JSON.parse succeeds, msg.type throws) was
\* dropped on a session bound to a dreaming agent while another session is
\* open to receive what a handler would broadcast.
C16_Witness ==
    /\ last.op = "null"
    /\ agentIdOf[last.ws] \in DOMAIN agents
    /\ agents[agentIdOf[last.ws]].status = "dreaming"
    /\ \E v \in Registry : v # last.ws /\ wsState[v] = "open"

\* C17: an agent has a currentDreamId exactly while it is dreaming.
C17_DreamIdIffDreaming ==
    \A id \in DOMAIN agents :
        Truthy(agents[id].currentDreamId) <=> agents[id].status = "dreaming"

\* C18: while an agent id stays in the directory its dreamCount never
\* decreases, and it increases only in a step that handles a dream_end.
C18_DreamCountMonotonic ==
    [][ \A id \in DOMAIN agents \cap DOMAIN agents' :
          /\ agents'[id].dreamCount >= agents[id].dreamCount
          /\ agents'[id].dreamCount > agents[id].dreamCount
                => last'.op = "dream_end" ]_vars

\* C19: a register frame that supplies an agentId present in the directory
\* leaves that agent's record as it was.
C19_RegisterReusesRecord ==
    [][ (last'.op = "register" /\ agentIdOf'[last'.ws] \in DOMAIN agents)
        => agents'[agentIdOf'[last'.ws]] = agents[agentIdOf'[last'.ws]] ]_vars

\* C20: when the transport of a session signals an error or its closure, the
\* session leaves the registry and its bound agent the directory; a signal
\* for a session that is already removed changes neither.
C20_CloseOrErrorRemoves ==
    [][ last'.op \in { "fail", "disconnect" }
        => IF last'.ws \in Registry
           THEN /\ last'.ws \notin Range(sessions')
                /\ Truthy(agentIdOf[last'.ws]) => agentIdOf[last'.ws] \notin DOMAIN agents'
           ELSE sessions' = sessions /\ agents' = agents ]_vars

\* DreamRoom's close and error listeners (C20's statement for the viewer
\* room): either signal removes the connection from the registry, and the
\* second of the two changes nothing more.
RoomCloseOrErrorRemoves ==
    [][ \A w \in RWS :
          (rWs'[w] # rWs[w] /\ rWs'[w] \in { "errored", "closed" })
            => /\ w \notin Range(rSessions')
               /\ rSessions' = SeqDelete(rSessions, w)
               /\ rWs[w] = "errored" => rSessions' = rSessions ]_vars

C22_StatsAddUp ==
    /\ getStats(agents).total = Cardinality(DOMAIN agents)
    /\ getStats(agents).total = getStats(agents).dreaming + getStats(agents).active
    /\ \A w \in WS : \A k \in DOMAIN out[w] :
          out[w][k].type = "welcome"
            => out[w][k].stats.total = out[w][k].stats.dreaming + out[w][k].stats.active

\* C23: every agent_updated, dream_started, dream_ended, insight and
\* agent_left that is broadcast names an agent announced by an agent_joined
\* and not by an agent_left since.
C23_EventsWithinPresence ==
    [][ (last'.bcast # None /\ last'.bcast[1].type # "agent_joined")
        => last'.bcast[1].agentId \in present ]_vars

\* C23, its case: a dream_ended is broadcast about a client-named agent while
\* a session that was bound to the same id has already closed.
C23_Witness ==
    /\ last.bcast # None
    /\ last.bcast[1].type = "dream_ended"
    /\ last.bcast[1].agentId \in ClientIds
    /\ \E w \in WS : wsState[w] = "closed" /\ agentIdOf[w] = last.bcast[1].agentId

\* the dream rows of an agent whose ended_at is set, or is not
DreamRows(a, ended) ==
    { k \in DOMAIN dbDreams : dbDreams[k].agent_id = a /\ dbDreams[k].ended = ended }

\* every request that arrived has been answered, and each arrived after the
\* one before it was answered
AnsweredInTurn == \A r \in R : reqs[r].pc \in Answered /\ reqs[r].alone

\* C24: once the dream/start and dream/end requests of an identity, made one
\* after the other, are all answered, the agent's dream_count is the number of
\* its dream rows with ended_at set, and an agent with status active has no
\* dream row with ended_at unset.
C24_CountIsEndedDreams ==
    AnsweredInTurn =>
        \A a \in DOMAIN dbAgents :
            /\ dbAgents[a].dream_count = Cardinality(DreamRows(a, TRUE))
            /\ dbAgents[a].status = "active" => DreamRows(a, FALSE) = {}

\* C25: two getOrCreateAgent calls that both found no row of the identity
\* leave one row of it in the store, both return that row and neither fails.
C25_ConcurrentCreateYieldsOneRow ==
    /\ \A m \in Mids :
          Cardinality({ a \in DOMAIN dbAgents : dbAgents[a].moltbook_id = m }) <= 1
    /\ \A r \in R :
          /\ reqs[r].pc # "failed"
          /\ reqs[r].route = "start" /\ reqs[r].pc \in { "dream", "update", "bcast", "done" }
               => reqs[r].agent = RowOf(dbAgents, reqs[r].mid)

\* C10, its case: an event was broadcast while the first session of the
\* registry could not be sent to; a later one, not bound to any agent, got it.
C10_Witness ==
    /\ last.bcast # None
    /\ Len(sessions) >= 2
    /\ wsState[sessions[1]] = "broken"
    /\ \E k \in 2 .. Len(sessions) :
          /\ agentIdOf[sessions[k]] = Null
          /\ Count(last.bcast[1], out[sessions[k]]) = 1

====
